---- MODULE Spec2Model ----
(***************************************************************************)
(* kavosh-backend: the key rotation registry (keyManager) and the          *)
(* handlers that use it, POST /api/ai/enhance and POST /api/search/multi,  *)
(* in three of the server variants the repository holds:                   *)
(*   "defensive"  src/unnamed/part_003            (fixed CORS/error file)  *)
(*   "rotation"   src/server.js lines 1537-1946   (dynamic key rotation)   *)
(*   "railway"    src/server.js lines 680-1535    (Railway deployment)     *)
(* JavaScript runs a handler without interruption from one await to the    *)
(* next, so an action is the code between two awaits.                      *)
(* Further sections model createMockResults, loadApiKeys over the names of *)
(* process.env, the first server of src/server.js, and the login code of   *)
(* src/README.md, src/server.js lines 1947-1978 and src/unnamed/part_000.  *)
(***************************************************************************)
EXTENDS Integers, Sequences, FiniteSets, TLC

VARIABLES variant, apiKeys, indices, req, start, rotCalls, users, env

vars == <<variant, apiKeys, indices, req, start, rotCalls, users, env>>

----------------------------------------------------------------------------
(* Bounds *)
MaxKeys == 2        \* credentials configured per service
MaxReqs == 2        \* requests in flight at once
MaxRot == 3         \* rotateKey calls observed per service (SpecRotate)
MaxCount == 22      \* largest count passed to createMockResults (SpecMock)
MaxUsers == 2       \* users created with POST /users (SpecLogin)
MaxSuffix == 10     \* variables of one rotation pool (SpecLoad)

----------------------------------------------------------------------------
(* Values *)
Variants == {"defensive", "rotation", "railway"}
KeyVariants == {"defensive", "rotation"}
Services == {"openai", "gemini", "twitter"}
Null == 0

KeyList(n) == [i \in 1..n |-> i]

Min(a, b) == IF a < b THEN a ELSE b
Max(a, b) == IF a > b THEN a ELSE b

\* the outcome of one outbound call: the HTTP status, or a thrown error
\* (network failure, timeout, unparsable body)
Statuses == {"ok", "s401", "s429", "s500", "neterr"}
AuthFail(st) == st \in {"s401", "s429"}

----------------------------------------------------------------------------
(* keyManager *)

\* (keys[i] past the end of the array is undefined, which callers treat as
\* no key)
getKey(keys, ind, service) ==
  IF service \notin DOMAIN keys \/ Len(keys[service]) = 0
  THEN Null
  ELSE IF ind[service] + 1 \in DOMAIN keys[service]
  THEN keys[service][ind[service] + 1]
  ELSE Null

\* rotateKey without the length guard, wrapping one position late
rotateKeyNoGuard(keys, ind, service) ==
  IF service \notin DOMAIN keys
  THEN ind
  ELSE [ind EXCEPT ![service] = (@ + 1) % (Len(keys[service]) + 1)]

\* rotateKey advancing two positions
rotateKeySkip(keys, ind, service) ==
  IF service \notin DOMAIN keys \/ Len(keys[service]) < 2
  THEN ind
  ELSE [ind EXCEPT ![service] = (@ + 2) % Len(keys[service])]

\* rotateKey advancing the cursor of every service that has two or more
\* credentials
rotateKeyAll(keys, ind, service) ==
  IF service \notin DOMAIN keys \/ Len(keys[service]) < 2
  THEN ind
  ELSE [s \in DOMAIN ind |->
          IF Len(keys[s]) >= 2 THEN (ind[s] + 1) % Len(keys[s]) ELSE ind[s]]

rotateKey(keys, ind, service) ==
  IF service \notin DOMAIN keys \/ Len(keys[service]) < 2
  THEN ind
  ELSE [ind EXCEPT ![service] = (@ + 1) % Len(keys[service])]


----------------------------------------------------------------------------
(* process.env.  The value of the i-th variable of a service (base name,   *)
(* then _2, ...) is Null when the variable is unset or empty, i when it    *)
(* holds a secret, and Placeholder(i) when it holds a template value such  *)
(* as "your_twitter_bearer_token".                                         *)
Placeholder(i) == 0 - i
EnvValues(i) == {Null, i, Placeholder(i)}

\* key.includes("your_")
IncludesYour(k) == k < 0

\* the values of the service's variables in the order of their sorted names,
\* without the falsy ones
loadApiKeys(values) == SelectSeq(values, LAMBDA v : v # Null)

\* process.env.X && !process.env.X.includes("your_")
Configured(k) == k # Null /\ ~IncludesYour(k)

----------------------------------------------------------------------------
(* Request inputs.  Strings are represented by the cases the code tells    *)
(* apart: undefined, the empty string, a blank string, a proper string.    *)
Texts == {"undef", "", " ", "q"}
Truthy(x) == x \notin {"undef", ""}
Trim(x) == IF x = " " THEN "" ELSE x

PlatformIds == {"twitter", "eitaa", "Eitaa", "myspace"}
ToLowerCase(p) == IF p = "Eitaa" THEN "eitaa" ELSE p
PlatformForms == {"undef", "nonlist", "list"}
PlatformLists ==
  {<<>>, <<"twitter">>, <<"eitaa">>, <<"Eitaa">>, <<"myspace">>,
   <<"twitter", "eitaa">>, <<"myspace", "twitter">>, <<"eitaa", "eitaa">>}
Counts == {9}
LiveCounts == {2}
\* the platforms sent along with a missing, empty or blank query
ProbeList == <<"twitter", "eitaa">>
AiServices == {"openai", "gemini"}

(* A task is one call of makeTwitterSearch or createMockResults made for   *)
(* one entry of a platforms list, or the retry loop of one /api/ai/enhance *)
(* request (platform "openai").  makeTelegramSearch is outside the model:  *)
(* no platforms list of the model names telegram.                          *)
NewTask(p) ==
  [platform |-> p, pc |-> "start", attempt |-> 0, maxRetries |-> 0,
   calls |-> 0, key |-> Null, authOnly |-> TRUE, out |-> "pending",
   why |-> "none", total |-> 0, promise |-> TRUE]

\* fetch(...) is called with credential k: one more outbound call in flight
Issue(t, k) == [t EXCEPT !.pc = "await", !.key = k, !.calls = @ + 1]

\* the task returns (out: live, mock, canned, error) or throws (rejected)
\* (attempt and currentKey are locals, gone when the function has returned)
Settle(t, out, why, n) ==
  [t EXCEPT !.pc = "settled", !.out = out, !.why = why, !.total = n,
            !.attempt = 0, !.key = Null]

Settled(t) == t.pc = "settled"

MockCap(v) ==
  CASE v = "defensive" -> 10
    [] v = "rotation" -> 8
    [] v = "railway" -> 20

\* createMockResults(platform, query, count).data.total
MockTotal(v, count) == Max(Min(count, MockCap(v)), 0)

\* createMockResults without the cap on the number of items
createMockResultsUncapped(v, platform, count) ==
  LET results == [i \in 1..Max(count, 0) |-> [id |-> i - 1, platform |-> platform]]
  IN [success |-> TRUE, results |-> results, total |-> Len(results),
      platform |-> platform]

\* createMockResults(platform, query, count): Array.from takes a negative
\* length as 0; an item is its index and its platform field
createMockResults(v, platform, count) ==
  LET length == Min(count, MockCap(v))
      results == [i \in 1..(IF length < 0 THEN 0 ELSE length) |->
                    [id |-> i - 1, platform |-> platform]]
  IN [success |-> TRUE, results |-> results, total |-> Len(results),
      platform |-> platform]


----------------------------------------------------------------------------
(* makeTwitterSearch.  Each operator returns the task after the code has   *)
(* run to its next await or its return; the ...Response operators return   *)
(* the cursors as well, since a 401/429 rotates.                           *)

\* the head of the loop without the check of currentKey
TwitterHeadNoCheck(t, keys, ind, count) ==
  Issue(t, getKey(keys, ind, "twitter"))

\* defensive: the head of the for-loop, from getKey to the await of fetch
TwitterHeadDefensive(t, keys, ind, count) ==
  LET currentKey == getKey(keys, ind, "twitter") IN
  IF currentKey = Null
  THEN Settle(t, "mock", "nokey", MockTotal("defensive", count))
  ELSE Issue(t, currentKey)

\* makeTwitterSearch allowing one attempt more than there are keys
makeTwitterSearchExtraAttempt(t, keys, ind, count) ==
  TwitterHeadDefensive(
    [t EXCEPT !.maxRetries = Len(keys["twitter"]) + 1, !.attempt = 0],
    keys, ind, count)

makeTwitterSearchDefensive(t, keys, ind, count) ==
  TwitterHeadDefensive(
    [t EXCEPT !.maxRetries = Max(Len(keys["twitter"]), 1), !.attempt = 0],
    keys, ind, count)

\* makeTwitterSearch with a catch that rotates before it retries
TwitterResponseRotateOnError(t, st, n, keys, ind, count) ==
  LET last == t.attempt = t.maxRetries - 1
      seen == [t EXCEPT !.authOnly = @ /\ AuthFail(st)]
      again == [seen EXCEPT !.attempt = @ + 1]
      mock == MockTotal("defensive", count)
      rotated == rotateKey(keys, ind, "twitter")
  IN
  IF st = "ok"
  THEN [ind |-> ind, task |-> Settle(seen, "live", "none", n)]
  ELSE [ind |-> rotated,
        task |-> IF last
                 THEN Settle(seen, "mock",
                             IF AuthFail(st) THEN "exhausted" ELSE "failed",
                             mock)
                 ELSE TwitterHeadDefensive(again, keys, rotated, count)]

\* defensive: the fetch settled with st (n items when it is an ok response)
TwitterResponseDefensive(t, st, n, keys, ind, count) ==
  LET last == t.attempt = t.maxRetries - 1
      seen == [t EXCEPT !.authOnly = @ /\ AuthFail(st)]
      again == [seen EXCEPT !.attempt = @ + 1]
      mock == MockTotal("defensive", count)
  IN
  IF AuthFail(st)
  THEN LET rotated == rotateKey(keys, ind, "twitter") IN
       [ind |-> rotated,
        task |-> IF last THEN Settle(seen, "mock", "exhausted", mock)
                 ELSE TwitterHeadDefensive(again, keys, rotated, count)]
  ELSE IF st = "ok"
  THEN [ind |-> ind, task |-> Settle(seen, "live", "none", n)]
  ELSE \* thrown inside the try: the catch retries without rotating
       [ind |-> ind,
        task |-> IF last THEN Settle(seen, "mock", "failed", mock)
                 ELSE TwitterHeadDefensive(again, keys, ind, count)]

\* rotation: no key throws, and nothing catches inside the function
TwitterHeadRotation(t, keys, ind) ==
  LET currentKey == getKey(keys, ind, "twitter") IN
  IF currentKey = Null
  THEN Settle(t, "rejected", "nokey", 0)
  ELSE Issue(t, currentKey)

makeTwitterSearchRotation(t, keys, ind) ==
  TwitterHeadRotation(
    [t EXCEPT !.maxRetries = IF Len(keys["twitter"]) = 0 THEN 1
                              ELSE Len(keys["twitter"]),
              !.attempt = 0],
    keys, ind)

TwitterResponseRotation(t, st, n, keys, ind) ==
  LET last == t.attempt = t.maxRetries - 1
      seen == [t EXCEPT !.authOnly = @ /\ AuthFail(st)]
      again == [seen EXCEPT !.attempt = @ + 1]
  IN
  IF AuthFail(st)
  THEN LET rotated == rotateKey(keys, ind, "twitter") IN
       [ind |-> rotated,
        task |-> IF last THEN Settle(seen, "rejected", "exhausted", 0)
                 ELSE TwitterHeadRotation(again, keys, rotated)]
  ELSE IF st = "ok"
  THEN [ind |-> ind, task |-> Settle(seen, "live", "none", n)]
  ELSE [ind |-> ind, task |-> Settle(seen, "rejected", "failed", 0)]

\* process.env[<base name>], the first variable loadApiKeys collects for the
\* service; Null when it is not set
EnvToken(keys, service) ==
  IF Len(keys[service]) = 0 THEN Null ELSE keys[service][1]

\* railway: one fetch with process.env.TWITTER_BEARER_TOKEN, no keyManager
makeTwitterSearchRailway(t, keys) ==
  [Issue(t, EnvToken(keys, "twitter")) EXCEPT !.maxRetries = 1]

TwitterResponseRailway(t, st, n) ==
  LET seen == [t EXCEPT !.authOnly = @ /\ AuthFail(st)] IN
  IF st = "ok" THEN Settle(seen, "live", "none", n)
  ELSE Settle(seen, "rejected", "failed", 0)

----------------------------------------------------------------------------
(* The retry loop of POST /api/ai/enhance *)

AiHeadDefensive(t, keys, ind) ==
  LET currentKey == getKey(keys, ind, "openai") IN
  IF currentKey = Null
  THEN Settle(t, "canned", "nokey", 0)
  ELSE Issue(t, currentKey)

aiEnhanceDefensive(t, keys, ind) ==
  AiHeadDefensive(
    [t EXCEPT !.maxRetries = Max(Len(keys["openai"]), 1), !.attempt = 0],
    keys, ind)

\* the retry loop without its attempt counter
AiResponseNoCount(t, st, keys, ind) ==
  LET seen == [t EXCEPT !.authOnly = @ /\ AuthFail(st)] IN
  IF AuthFail(st)
  THEN LET rotated == rotateKey(keys, ind, "openai") IN
       [ind |-> rotated, task |-> AiHeadDefensive(seen, keys, rotated)]
  ELSE IF st = "ok"
  THEN [ind |-> ind, task |-> Settle(seen, "live", "none", 0)]
  ELSE [ind |-> ind, task |-> AiHeadDefensive(seen, keys, ind)]

\* the retry loop with a catch that rethrows on the last attempt
AiResponseRethrow(t, st, keys, ind) ==
  LET last == t.attempt = t.maxRetries - 1
      seen == [t EXCEPT !.authOnly = @ /\ AuthFail(st)]
      again == [seen EXCEPT !.attempt = @ + 1]
  IN
  IF AuthFail(st)
  THEN LET rotated == rotateKey(keys, ind, "openai") IN
       [ind |-> rotated,
        task |-> IF last THEN Settle(seen, "canned", "exhausted", 0)
                 ELSE AiHeadDefensive(again, keys, rotated)]
  ELSE IF st = "ok"
  THEN [ind |-> ind, task |-> Settle(seen, "live", "none", 0)]
  ELSE [ind |-> ind,
        task |-> IF last THEN Settle(seen, "error", "failed", 0)
                 ELSE AiHeadDefensive(again, keys, ind)]

AiResponseDefensive(t, st, keys, ind) ==
  LET last == t.attempt = t.maxRetries - 1
      seen == [t EXCEPT !.authOnly = @ /\ AuthFail(st)]
      again == [seen EXCEPT !.attempt = @ + 1]
  IN
  IF AuthFail(st)
  THEN LET rotated == rotateKey(keys, ind, "openai") IN
       [ind |-> rotated,
        task |-> IF last THEN Settle(seen, "canned", "exhausted", 0)
                 ELSE AiHeadDefensive(again, keys, rotated)]
  ELSE IF st = "ok"
  THEN [ind |-> ind, task |-> Settle(seen, "live", "none", 0)]
  ELSE [ind |-> ind,
        task |-> IF last THEN Settle(seen, "canned", "failed", 0)
                 ELSE AiHeadDefensive(again, keys, ind)]

AiHeadRotation(t, keys, ind) ==
  LET currentKey == getKey(keys, ind, "openai") IN
  IF currentKey = Null
  THEN Settle(t, "error", "nokey", 0)
  ELSE Issue(t, currentKey)

aiEnhanceRotation(t, keys, ind) ==
  AiHeadRotation(
    [t EXCEPT !.maxRetries = IF Len(keys["openai"]) = 0 THEN 1
                              ELSE Len(keys["openai"]),
              !.attempt = 0],
    keys, ind)

AiResponseRotation(t, st, keys, ind) ==
  LET last == t.attempt = t.maxRetries - 1
      seen == [t EXCEPT !.authOnly = @ /\ AuthFail(st)]
      again == [seen EXCEPT !.attempt = @ + 1]
  IN
  IF AuthFail(st)
  THEN LET rotated == rotateKey(keys, ind, "openai") IN
       [ind |-> rotated,
        task |-> IF last THEN Settle(seen, "error", "exhausted", 0)
                 ELSE AiHeadRotation(again, keys, rotated)]
  ELSE IF st = "ok"
  THEN [ind |-> ind, task |-> Settle(seen, "live", "none", 0)]
  ELSE [ind |-> ind,
        task |-> IF last THEN Settle(seen, "error", "failed", 0)
                 ELSE AiHeadRotation(again, keys, ind)]

\* railway: one fetch when OPENAI_API_KEY is set, a generated analysis if not
aiEnhanceRailway(t, service, keys) ==
  IF service = "openai" /\ Configured(EnvToken(keys, "openai"))
  THEN [Issue(t, EnvToken(keys, "openai")) EXCEPT !.maxRetries = 1]
  ELSE Settle(t, "mock", "nokey", 0)

AiResponseRailway(t, st) ==
  LET seen == [t EXCEPT !.authOnly = @ /\ AuthFail(st)] IN
  IF st = "ok" THEN Settle(seen, "live", "none", 0)
  ELSE Settle(seen, "canned", "failed", 0)

\* the HTTP status the handler answers with once its loop has ended
AiStatus(v, t) ==
  IF v = "rotation" /\ t.out = "error"
  THEN (IF t.why = "exhausted" THEN 503 ELSE 500)
  ELSE 200


----------------------------------------------------------------------------
(* Requests.  req[r] is the request held by connection r: its body, the    *)
(* tasks it started, and the response it sent (status 0: none yet).        *)
Reqs == 1..MaxReqs

Idle ==
  [kind |-> "none", pc |-> "idle", status |-> 0, query |-> "undef",
   pform |-> "undef", platforms |-> <<>>, count |-> 0, text |-> "undef",
   service |-> "openai", tasks |-> <<>>, resp |-> {}, total |-> 0,
   useAI |-> FALSE]

Respond(b, code) == [b EXCEPT !.pc = "done", !.status = code]

\* one entry of the response's platforms map
Entry(name, t) ==
  [key |-> name, success |-> t.out \in {"live", "mock"}, out |-> t.out,
   why |-> t.why, total |-> t.total]

ErrorEntry(name, t) ==
  [key |-> name, success |-> FALSE, out |-> "error", why |-> t.why, total |-> 0]

\* platformResults[e.key] = e
Put(resp, e) == {x \in resp : x.key # e.key} \cup {e}

AllSettled(tasks) == \A i \in 1..Len(tasks) : Settled(tasks[i])

----------------------------------------------------------------------------
(* POST /api/search/multi, defensive variant *)

StartTaskDefensive(p, keys, ind, count) ==
  LET t == NewTask(p)
      lower == ToLowerCase(p)
  IN
  CASE lower = "twitter" -> makeTwitterSearchDefensive(t, keys, ind, count)
    [] lower \in {"instagram", "facebook", "eitaa", "rubika"} ->
         Settle(t, "mock", "none", MockTotal("defensive", count))
    [] OTHER -> Settle(t, "error", "unsupported", 0)

multiDefensive(body, keys, ind) ==
  IF ~Truthy(body.query) \/ ~Truthy(Trim(body.query))
  THEN Respond(body, 400)
  ELSE IF body.pform # "list" \/ Len(body.platforms) = 0
  THEN Respond(body, 400)
  ELSE [body EXCEPT
          !.pc = "wait",
          !.tasks = [i \in 1..Len(body.platforms) |->
                       StartTaskDefensive(body.platforms[i], keys, ind,
                                          body.count)]]

\* results.forEach over the outcome of Promise.allSettled, from index i on
RECURSIVE ComposeDefensive(_, _, _, _)
ComposeDefensive(tasks, names, i, acc) ==
  IF i > Len(tasks) THEN acc
  ELSE LET t == tasks[i] IN
       ComposeDefensive(tasks, names, i + 1,
         IF t.out # "rejected"
         THEN [resp |-> Put(acc.resp, Entry(names[i], t)),
               total |-> acc.total +
                         (IF t.out \in {"live", "mock"} THEN t.total ELSE 0)]
         ELSE [resp |-> Put(acc.resp, ErrorEntry(names[i], t)),
               total |-> acc.total])

----------------------------------------------------------------------------
(* POST /api/search/multi, rotation variant *)

StartTaskRotation(p, keys, ind, count) ==
  LET t == NewTask(p) IN
  CASE p = "twitter" -> makeTwitterSearchRotation(t, keys, ind)
    [] OTHER -> \* createMockResults returns a plain object, not a promise
         [Settle(t, "mock", "none", MockTotal("rotation", count))
            EXCEPT !.promise = FALSE]

multiRotation(body, keys, ind) ==
  IF ~Truthy(body.query)
  THEN Respond(body, 400)
  ELSE IF body.pform = "nonlist"
  THEN \* platforms.map is not a function, thrown outside the try: the
       \* handler's promise rejects and no response is sent
       [body EXCEPT !.pc = "unhandled"]
  ELSE LET tasks == [i \in 1..Len(body.platforms) |->
                       StartTaskRotation(body.platforms[i], keys, ind,
                                         body.count)]
       IN
       IF \E i \in 1..Len(tasks) : ~tasks[i].promise
       THEN \* p.catch is not a function, thrown inside the try
            [Respond(body, 500) EXCEPT !.tasks = tasks]
       ELSE [body EXCEPT !.pc = "wait", !.tasks = tasks]

RECURSIVE ComposeRotation(_, _, _)
ComposeRotation(tasks, i, acc) ==
  IF i > Len(tasks) THEN acc
  ELSE LET t == tasks[i]
           result == IF t.out = "rejected" THEN ErrorEntry("unknown", t)
                     ELSE Entry(t.platform, t)
       IN
       ComposeRotation(tasks, i + 1,
         [resp |-> Put(acc.resp, result),
          total |-> acc.total + (IF result.success THEN result.total ELSE 0)])

----------------------------------------------------------------------------
(* POST /api/search/multi, railway variant: every handler writes its own   *)
(* entry of platformResults when it ends.                                  *)

StartTaskRailway(p, keys, count) ==
  LET t == NewTask(p) IN
  IF p = "twitter" /\ Configured(EnvToken(keys, "twitter"))
  THEN makeTwitterSearchRailway(t, keys)
  ELSE Settle(t, "mock", IF p = "twitter" THEN "nokey" ELSE "none",
              MockTotal("railway", count))

RecordRailway(acc, t) ==
  IF t.out = "rejected"
  THEN [resp |-> Put(acc.resp, ErrorEntry(t.platform, t)), total |-> acc.total]
  ELSE [resp |-> Put(acc.resp, Entry(t.platform, t)),
        total |-> acc.total + t.total]

RECURSIVE RecordSettledRailway(_, _, _)
RecordSettledRailway(tasks, i, acc) ==
  IF i > Len(tasks) THEN acc
  ELSE RecordSettledRailway(tasks, i + 1,
         IF Settled(tasks[i]) THEN RecordRailway(acc, tasks[i]) ELSE acc)

multiRailway(body, keys) ==
  IF ~Truthy(body.query)
  THEN Respond(body, 500)
  ELSE IF body.pform = "nonlist"
  THEN Respond(body, 500)       \* platforms.join is not a function, caught
  ELSE LET names == IF body.pform = "undef" THEN <<"twitter">>
                    ELSE body.platforms
           tasks == [i \in 1..Len(names) |->
                       StartTaskRailway(names[i], keys, body.count)]
           acc == RecordSettledRailway(tasks, 1, [resp |-> {}, total |-> 0])
       IN [body EXCEPT !.pc = "wait", !.platforms = names, !.tasks = tasks,
                       !.resp = acc.resp, !.total = acc.total]


----------------------------------------------------------------------------
(* POST /api/ai/enhance: validation, then the retry loop up to its first   *)
(* await                                                                   *)

Answer(v, body, t) ==
  IF Settled(t)
  THEN [Respond(body, AiStatus(v, t)) EXCEPT !.tasks = <<t>>]
  ELSE [body EXCEPT !.pc = "wait", !.tasks = <<t>>]

aiDefensive(body, keys, ind) ==
  IF ~Truthy(body.text) \/ ~Truthy(Trim(body.text))
  THEN Respond(body, 400)
  ELSE IF body.service # "openai"
  THEN Respond(body, 400)
  ELSE Answer("defensive", body, aiEnhanceDefensive(NewTask("openai"), keys, ind))

aiRotation(body, keys, ind) ==
  IF ~Truthy(body.text)
  THEN Respond(body, 400)
  ELSE IF body.service # "openai"
  THEN Respond(body, 400)
  ELSE Answer("rotation", body, aiEnhanceRotation(NewTask("openai"), keys, ind))

aiRailway(body, keys) ==
  IF ~Truthy(body.text)
  THEN Respond(body, 500)       \* "Text is required" is thrown and caught
  ELSE Answer("railway", body,
              aiEnhanceRailway(NewTask("openai"), body.service, keys))

----------------------------------------------------------------------------
(* The state after construction *)

Init ==
  /\ variant \in Variants
  /\ apiKeys \in [Services -> {KeyList(n) : n \in 0..MaxKeys}]
  /\ apiKeys["gemini"] = KeyList(MaxKeys)
  /\ indices = [s \in Services |-> 0]
  /\ req = [r \in Reqs |-> Idle]
  /\ users = {}
  /\ env = <<>>
  /\ start = indices
  /\ rotCalls = [s \in Services \cup {"unknown"} |-> 0]

\* connection r holds no request that is still running
Free(r) == req[r].pc \in {"idle", "done", "unhandled"} /\ AllSettled(req[r].tasks)

ReceiveMulti(r, query, pform, plist, count) ==
  /\ Free(r)
  /\ pform = "list" \/ plist = <<>>
  /\ query = "q" \/ (pform = "list" /\ plist = ProbeList)
  /\ LET body == [Idle EXCEPT !.kind = "multi", !.query = query,
                              !.pform = pform, !.platforms = plist,
                              !.count = count]
     IN req' = [req EXCEPT ![r] =
                  CASE variant = "defensive" ->
                         multiDefensive(body, apiKeys, indices)
                    [] variant = "rotation" ->
                         multiRotation(body, apiKeys, indices)
                    [] variant = "railway" -> multiRailway(body, apiKeys)]
  /\ UNCHANGED <<variant, apiKeys, indices, start, rotCalls, users, env>>

ReceiveAi(r, text, service) ==
  /\ Free(r)
  /\ LET body == [Idle EXCEPT !.kind = "ai", !.text = text,
                              !.service = service]
     IN req' = [req EXCEPT ![r] =
                  CASE variant = "defensive" -> aiDefensive(body, apiKeys, indices)
                    [] variant = "rotation" -> aiRotation(body, apiKeys, indices)
                    [] variant = "railway" -> aiRailway(body, apiKeys)]
  /\ UNCHANGED <<variant, apiKeys, indices, start, rotCalls, users, env>>

\* the fetch of task i of request r settles with st
TwitterResponse(r, i, st, n) ==
  /\ req[r].kind = "multi"
  /\ i \in 1..Len(req[r].tasks)
  /\ req[r].tasks[i].pc = "await"
  /\ ToLowerCase(req[r].tasks[i].platform) = "twitter"
  /\ LET t == req[r].tasks[i]
         got == CASE variant = "defensive" ->
                       TwitterResponseDefensive(t, st, n, apiKeys, indices,
                                                req[r].count)
                  [] variant = "rotation" ->
                       TwitterResponseRotation(t, st, n, apiKeys, indices)
                  [] variant = "railway" ->
                       [ind |-> indices, task |-> TwitterResponseRailway(t, st, n)]
         acc == IF variant = "railway"
                THEN RecordRailway([resp |-> req[r].resp, total |-> req[r].total],
                                   got.task)
                ELSE [resp |-> req[r].resp, total |-> req[r].total]
     IN /\ indices' = got.ind
        /\ req' = [req EXCEPT ![r].tasks[i] = got.task,
                              ![r].resp = acc.resp,
                              ![r].total = acc.total]
  /\ UNCHANGED <<variant, apiKeys, start, rotCalls, users, env>>

\* Promise.allSettled / Promise.all resolves: the response is composed
Compose(r) ==
  /\ req[r].kind = "multi"
  /\ req[r].pc = "wait"
  /\ AllSettled(req[r].tasks)
  /\ LET zero == [resp |-> {}, total |-> 0]
         acc == CASE variant = "defensive" ->
                       ComposeDefensive(req[r].tasks, req[r].platforms, 1, zero)
                  [] variant = "rotation" ->
                       ComposeRotation(req[r].tasks, 1, zero)
                  [] variant = "railway" ->
                       [resp |-> req[r].resp, total |-> req[r].total]
     IN req' = [req EXCEPT ![r] =
                  [Respond(req[r], 200) EXCEPT !.resp = acc.resp,
                                               !.total = acc.total]]
  /\ UNCHANGED <<variant, apiKeys, indices, start, rotCalls, users, env>>

\* the fetch of an /api/ai/enhance request settles with st
AiResponse(r, st) ==
  /\ req[r].kind = "ai"
  /\ req[r].pc = "wait"
  /\ req[r].tasks[1].pc = "await"
  /\ LET t == req[r].tasks[1]
         got == CASE variant = "defensive" ->
                       AiResponseDefensive(t, st, apiKeys, indices)
                  [] variant = "rotation" ->
                       AiResponseRotation(t, st, apiKeys, indices)
                  [] variant = "railway" ->
                       [ind |-> indices, task |-> AiResponseRailway(t, st)]
     IN /\ indices' = got.ind
        /\ req' = [req EXCEPT ![r] = Answer(variant, req[r], got.task)]
  /\ UNCHANGED <<variant, apiKeys, start, rotCalls, users, env>>

Next ==
  \/ \E r \in Reqs, query \in Texts, pform \in PlatformForms,
        plist \in PlatformLists, count \in Counts :
       ReceiveMulti(r, query, pform, plist, count)
  \/ \E r \in Reqs, text \in Texts, service \in AiServices :
       ReceiveAi(r, text, service)
  \/ \E r \in Reqs, st \in Statuses, n \in LiveCounts :
       \E i \in DOMAIN req[r].tasks : TwitterResponse(r, i, st, n)
  \/ \E r \in Reqs : Compose(r)
  \/ \E r \in Reqs, st \in Statuses : AiResponse(r, st)

Spec == Init /\ [][Next]_vars


----------------------------------------------------------------------------
(* rotateKey on its own: any credential sets, any cursor the server can    *)
(* be at, and rotateKey called for any service name.  start is the cursor  *)
(* at the beginning, rotCalls the number of calls made since.              *)

InitRotate ==
  /\ variant \in KeyVariants
  /\ apiKeys \in [Services -> {KeyList(n) : n \in 0..MaxKeys}]
  /\ indices \in [Services -> 0..MaxKeys]
  /\ \A s \in Services : indices[s] < Max(Len(apiKeys[s]), 1)
  /\ req = [r \in Reqs |-> Idle]
  /\ users = {}
  /\ env = <<>>
  /\ start = indices
  /\ rotCalls = [s \in Services \cup {"unknown"} |-> 0]

RotateCall(service) ==
  /\ rotCalls[service] < MaxRot
  /\ indices' = rotateKey(apiKeys, indices, service)
  /\ rotCalls' = [rotCalls EXCEPT ![service] = @ + 1]
  /\ UNCHANGED <<variant, apiKeys, req, start, users, env>>

NextRotate == \E service \in Services \cup {"unknown"} : RotateCall(service)

SpecRotate == InitRotate /\ [][NextRotate]_vars


----------------------------------------------------------------------------
(* The servers started from an environment whose variables may be unset,   *)
(* empty or left at their template value.  OPENAI_API_KEY... and           *)
(* TWITTER_BEARER_TOKEN... are given the same pattern; the Railway         *)
(* variant reads the base variable only.                                   *)

Environments ==
  {e \in [1..MaxKeys -> UNION {EnvValues(i) : i \in 1..MaxKeys}] :
     \A i \in 1..MaxKeys : e[i] \in EnvValues(i)}

InitEnv ==
  /\ variant \in Variants
  /\ \E e \in Environments :
       /\ variant = "railway" => \A i \in 2..MaxKeys : e[i] = Null
       /\ apiKeys = [s \in Services |->
                       IF s = "gemini" THEN KeyList(MaxKeys)
                       ELSE loadApiKeys(e)]
  /\ indices = [s \in Services |-> 0]
  /\ req = [r \in Reqs |-> Idle]
  /\ users = {}
  /\ env = <<>>
  /\ start = indices
  /\ rotCalls = [s \in Services \cup {"unknown"} |-> 0]

SpecEnv == InitEnv /\ [][Next]_vars


----------------------------------------------------------------------------
(* One call at a time: a request is received only when no other request is *)
(* in flight, so nothing else rotates a cursor while its retry loop runs.  *)
(* The cursors start anywhere in range; start is the cursor at the moment  *)
(* the call began.                                                         *)

InitAlone ==
  /\ variant \in KeyVariants
  /\ apiKeys \in [Services -> {KeyList(n) : n \in 0..MaxKeys}]
  /\ apiKeys["gemini"] = KeyList(MaxKeys)
  /\ indices \in [Services -> 0..MaxKeys]
  /\ \A s \in Services : indices[s] < Max(Len(apiKeys[s]), 1)
  /\ indices["gemini"] = 0
  /\ req = [r \in Reqs |-> Idle]
  /\ users = {}
  /\ env = <<>>
  /\ start = indices
  /\ rotCalls = [s \in Services \cup {"unknown"} |-> 0]

\* POST /api/search/multi {query, platforms: ["twitter"], count}
SearchAlone(r, count) ==
  /\ \A q \in Reqs : Free(q)
  /\ LET body == [Idle EXCEPT !.kind = "multi", !.query = "q",
                              !.pform = "list", !.platforms = <<"twitter">>,
                              !.count = count]
     IN req' = [req EXCEPT ![r] =
                  IF variant = "defensive"
                  THEN multiDefensive(body, apiKeys, indices)
                  ELSE multiRotation(body, apiKeys, indices)]
  /\ start' = indices
  /\ UNCHANGED <<variant, apiKeys, indices, rotCalls, users, env>>

\* POST /api/ai/enhance {text}
EnhanceAlone(r) ==
  /\ \A q \in Reqs : Free(q)
  /\ LET body == [Idle EXCEPT !.kind = "ai", !.text = "q"]
     IN req' = [req EXCEPT ![r] =
                  IF variant = "defensive"
                  THEN aiDefensive(body, apiKeys, indices)
                  ELSE aiRotation(body, apiKeys, indices)]
  /\ start' = indices
  /\ UNCHANGED <<variant, apiKeys, indices, rotCalls, users, env>>

NextAlone ==
  \/ \E r \in Reqs, count \in Counts : SearchAlone(r, count)
  \/ \E r \in Reqs : EnhanceAlone(r)
  \/ \E r \in Reqs, st \in Statuses, n \in LiveCounts :
       TwitterResponse(r, 1, st, n)
  \/ \E r \in Reqs : Compose(r)
  \/ \E r \in Reqs, st \in Statuses : AiResponse(r, st)

SpecAlone == InitAlone /\ [][NextAlone]_vars


----------------------------------------------------------------------------
(* Concurrent retry loops with the rotateKey calls counted: searches for   *)
(* twitter and analyses by OpenAI, received at any time, from any starting *)
(* cursor.  rotCalls[s] is the number of rotateKey(s) calls made so far,   *)
(* start the cursors at startup.                                           *)

\* the number of keyManager.rotateKey(service) calls the answer st causes
Rotations(st) == IF AuthFail(st) THEN 1 ELSE 0

TwitterResponseCounted(r, i, st, n) ==
  /\ rotCalls["twitter"] + Rotations(st) <= MaxRot
  /\ req[r].kind = "multi"
  /\ i \in 1..Len(req[r].tasks)
  /\ req[r].tasks[i].pc = "await"
  /\ LET t == req[r].tasks[i]
         got == IF variant = "defensive"
                THEN TwitterResponseDefensive(t, st, n, apiKeys, indices,
                                              req[r].count)
                ELSE TwitterResponseRotation(t, st, n, apiKeys, indices)
     IN /\ indices' = got.ind
        /\ req' = [req EXCEPT ![r].tasks[i] = got.task]
  /\ rotCalls' = [rotCalls EXCEPT !["twitter"] = @ + Rotations(st)]
  /\ UNCHANGED <<variant, apiKeys, start, users, env>>

AiResponseCounted(r, st) ==
  /\ rotCalls["openai"] + Rotations(st) <= MaxRot
  /\ req[r].kind = "ai"
  /\ req[r].pc = "wait"
  /\ req[r].tasks[1].pc = "await"
  /\ LET t == req[r].tasks[1]
         got == IF variant = "defensive"
                THEN AiResponseDefensive(t, st, apiKeys, indices)
                ELSE AiResponseRotation(t, st, apiKeys, indices)
     IN /\ indices' = got.ind
        /\ req' = [req EXCEPT ![r] = Answer(variant, req[r], got.task)]
  /\ rotCalls' = [rotCalls EXCEPT !["openai"] = @ + Rotations(st)]
  /\ UNCHANGED <<variant, apiKeys, start, users, env>>

NextRace ==
  \/ \E r \in Reqs, count \in Counts :
       ReceiveMulti(r, "q", "list", <<"twitter">>, count)
  \/ \E r \in Reqs : ReceiveAi(r, "q", "openai")
  \/ \E r \in Reqs, st \in Statuses, n \in LiveCounts :
       TwitterResponseCounted(r, 1, st, n)
  \/ \E r \in Reqs : Compose(r)
  \/ \E r \in Reqs, st \in Statuses : AiResponseCounted(r, st)

SpecRace == InitAlone /\ [][NextRace]_vars


----------------------------------------------------------------------------
(* Concurrent searches against an API that always accepts the last         *)
(* configured Twitter credential: a call made with it is answered 2xx.     *)
(* The other credentials are answered anything.                            *)

AcceptedKey(keys, service) == keys[service][Len(keys[service])]

InitGood ==
  /\ InitAlone
  /\ Len(apiKeys["twitter"]) >= 1

TwitterResponseGood(r, st, n) ==
  /\ req[r].kind = "multi"
  /\ req[r].tasks # <<>>
  /\ req[r].tasks[1].pc = "await"
  /\ req[r].tasks[1].key = AcceptedKey(apiKeys, "twitter") => st = "ok"
  /\ TwitterResponse(r, 1, st, n)

NextGood ==
  \/ \E r \in Reqs, count \in Counts :
       ReceiveMulti(r, "q", "list", <<"twitter">>, count)
  \/ \E r \in Reqs, st \in Statuses, n \in LiveCounts :
       TwitterResponseGood(r, st, n)
  \/ \E r \in Reqs : Compose(r)

SpecGood == InitGood /\ [][NextGood]_vars


----------------------------------------------------------------------------
(* createMockResults on its own: called for any platform identifier and    *)
(* any integer count from below 0 to above the largest cap; req[1] holds   *)
(* the arguments of the last call and, in resp, what it returned.          *)

MockCounts == (0 - 2)..MaxCount

InitMock ==
  /\ variant \in Variants
  /\ apiKeys = [s \in Services |-> KeyList(0)]
  /\ indices = [s \in Services |-> 0]
  /\ req = [r \in Reqs |-> Idle]
  /\ users = {}
  /\ env = <<>>
  /\ start = indices
  /\ rotCalls = [s \in Services \cup {"unknown"} |-> 0]

MockCall(platform, count) ==
  /\ req' = [req EXCEPT ![1] =
               [Idle EXCEPT !.kind = "mock", !.pc = "done",
                            !.platforms = <<platform>>, !.count = count,
                            !.resp = createMockResults(variant, platform,
                                                       count)]]
  /\ UNCHANGED <<variant, apiKeys, indices, start, rotCalls, users, env>>

NextMock == \E platform \in PlatformIds, count \in MockCounts :
              MockCall(platform, count)

SpecMock == InitMock /\ [][NextMock]_vars


----------------------------------------------------------------------------
(* POST /api/search/multi of the first server of src/server.js (lines      *)
(* 1-680): the platforms are searched one after the other in a for-loop,   *)
(* each search awaited before the next starts.  The response carries the   *)
(* concatenated results and their number, no platforms map.  options is    *)
(* left at its default {}.                                                 *)

\* options?.limit || 7, options?.limit || 8, and the length searchEitaa uses
MockLimit == 7
InstagramLimit == 8
EitaaLength == 15

Done(t, out, why, n) == Settle(t, out, why, n)

\* allResults = [...allResults, ...platformResults] for a search that returned
Push(body, t) == [body EXCEPT !.tasks = Append(@, t), !.total = @ + t.total]

\* after the loop: enhanceWithAI is awaited when asked for and there are
\* results; it fetches only when OPENAI_API_KEY is set
AfterLoopSequential(body, keys) ==
  IF body.useAI /\ body.total > 0 /\ EnvToken(keys, "openai") # Null
  THEN [body EXCEPT !.pc = "ai"]
  ELSE Respond(body, 200)

\* the for-loop from the platform after the last one searched, up to the
\* next fetch or to the end of the list
RECURSIVE LoopSequential(_, _)
LoopSequential(body, keys) ==
  IF Len(body.tasks) >= Len(body.platforms)
  THEN AfterLoopSequential(body, keys)
  ELSE LET p == body.platforms[Len(body.tasks) + 1]
           t == NewTask(p)
       IN
       CASE p = "twitter" /\ EnvToken(keys, "twitter") # Null ->
              [body EXCEPT
                 !.pc = "wait",
                 !.tasks = Append(@, [Issue(t, EnvToken(keys, "twitter"))
                                        EXCEPT !.maxRetries = 1])]
         [] p = "twitter" /\ EnvToken(keys, "twitter") = Null ->
              LoopSequential(Push(body, Done(t, "mock", "nokey", MockLimit)),
                             keys)
         [] p = "instagram" ->
              LoopSequential(Push(body, Done(t, "mock", "none", InstagramLimit)),
                             keys)
         [] p = "eitaa" ->
              LoopSequential(Push(body, Done(t, "mock", "none", EitaaLength)),
                             keys)
         [] OTHER ->
              LoopSequential(Push(body, Done(t, "mock", "none", MockLimit)),
                             keys)

multiSequential(body, keys) ==
  IF ~Truthy(body.query) \/ body.pform = "undef" \/ Len(body.platforms) = 0
  THEN Respond(body, 400)
  ELSE LoopSequential(body, keys)

\* searchTwitter after its fetch: the formatted tweets, or mock results when
\* the status is not ok or the call threw
searchTwitterResponse(t, st, n) ==
  LET seen == [t EXCEPT !.authOnly = @ /\ AuthFail(st)] IN
  IF st = "ok" THEN Done(seen, "live", "none", n)
  ELSE Done(seen, "mock", "failed", MockLimit)

InitSequential ==
  /\ variant = "sequential"
  /\ apiKeys \in [Services -> {KeyList(n) : n \in 0..MaxKeys}]
  /\ apiKeys["gemini"] = KeyList(MaxKeys)
  /\ indices = [s \in Services |-> 0]
  /\ req = [r \in Reqs |-> Idle]
  /\ users = {}
  /\ env = <<>>
  /\ start = indices
  /\ rotCalls = [s \in Services \cup {"unknown"} |-> 0]

ReceiveMultiSequential(r, query, pform, plist, useAI) ==
  /\ Free(r)
  /\ pform = "list" \/ plist = <<>>
  /\ query = "q" \/ (pform = "list" /\ plist = ProbeList /\ ~useAI)
  /\ req' = [req EXCEPT ![r] =
               multiSequential(
                 [Idle EXCEPT !.kind = "multi", !.query = query,
                              !.pform = pform, !.platforms = plist,
                              !.useAI = useAI],
                 apiKeys)]
  /\ UNCHANGED <<variant, apiKeys, indices, start, rotCalls, users, env>>

\* the fetch of searchTwitter settles with st and the loop goes on
TwitterResponseSequential(r, st, n) ==
  /\ req[r].kind = "multi"
  /\ req[r].pc = "wait"
  /\ LET i == Len(req[r].tasks)
         t == searchTwitterResponse(req[r].tasks[i], st, n)
         body == [req[r] EXCEPT !.tasks[i] = t, !.total = @ + t.total]
     IN req' = [req EXCEPT ![r] = LoopSequential(body, apiKeys)]
  /\ UNCHANGED <<variant, apiKeys, indices, start, rotCalls, users, env>>

\* the fetch of enhanceWithAI settles: its text or the fallback analysis
\* becomes aiInsight and the response is sent
InsightSettled(r) ==
  /\ req[r].kind = "multi"
  /\ req[r].pc = "ai"
  /\ req' = [req EXCEPT ![r] = Respond(req[r], 200)]
  /\ UNCHANGED <<variant, apiKeys, indices, start, rotCalls, users, env>>

NextSequential ==
  \/ \E r \in Reqs, query \in Texts, pform \in {"undef", "list"},
        plist \in PlatformLists, useAI \in BOOLEAN :
       ReceiveMultiSequential(r, query, pform, plist, useAI)
  \/ \E r \in Reqs, st \in Statuses, n \in LiveCounts :
       TwitterResponseSequential(r, st, n)
  \/ \E r \in Reqs : InsightSettled(r)

SpecSequential == InitSequential /\ [][NextSequential]_vars


----------------------------------------------------------------------------
(* Login.  The last server of src/server.js (POST /users, POST /login)     *)
(* with the user store of src/unnamed/part_000, and handleLogin of         *)
(* src/README.md.  users is the store; req[1] holds the last login         *)
(* request and its response.  A login runs to its response without         *)
(* touching shared state in between, so it is one step.                    *)

Names == {"undef", "", "ann", "bob"}
Passwords == {"undef", "", "pw1", "pw2"}
Salts == 1..2
Secrets == {Null, 1}            \* process.env.SECRET_KEY, unset or set

\* createUser: the new user gets the next id and is stored as given
createUser(store, username, password) ==
  store \cup {[id |-> Cardinality(store) + 1, username |-> username,
               password |-> password]}

\* authenticateUser: the first stored user with that name and password
authenticateUser(store, username, password) ==
  LET found == {u \in store : u.username = username /\ u.password = password}
  IN IF found = {} THEN {}
     ELSE {CHOOSE u \in found : \A w \in found : u.id <= w.id}

\* bcrypt.hash draws a salt; bcrypt.compare accepts the password the hash
\* was made from and no other
bcryptHash(password, salt) == [of |-> password, salt |-> salt]
bcryptCompare(password, hashed) == hashed.of = password

LoginResponse(kind, username, password, status, token, user) ==
  [kind |-> kind, pc |-> "done", username |-> username, password |-> password,
   status |-> status, token |-> token, user |-> user]

\* handleLogin: the password is compared with the hash made of it a line
\* before; jwt.sign throws without a secret
handleLogin(store, username, password, salt, secret) ==
  IF ~Truthy(username) \/ ~Truthy(password)
  THEN LoginResponse("handleLogin", username, password, 400, {}, {})
  ELSE LET hashedPassword == bcryptHash(password, salt)
           isValidPassword == bcryptCompare(password, hashedPassword)
       IN IF isValidPassword
          THEN IF secret = Null
               THEN LoginResponse("handleLogin", username, password, 500,
                                  {}, {})
               ELSE LoginResponse("handleLogin", username, password, 200,
                                  {[username |-> username]}, {})
          ELSE LoginResponse("handleLogin", username, password, 401, {}, {})

\* POST /login of src/server.js: answers with the stored user, no token
login(store, username, password) ==
  LET user == authenticateUser(store, username, password)
  IN IF user # {}
     THEN LoginResponse("login", username, password, 200, {}, user)
     ELSE LoginResponse("login", username, password, 401, {}, {})

InitLogin ==
  /\ variant = "login"
  /\ apiKeys = [s \in Services |-> KeyList(0)]
  /\ indices = [s \in Services |-> 0]
  /\ req = [r \in Reqs |-> Idle]
  /\ users = {}
  /\ env = <<>>
  /\ start = indices
  /\ rotCalls = [s \in Services \cup {"unknown"} |-> 0]

CreateUser(username, password) ==
  /\ Cardinality(users) < MaxUsers
  /\ users' = createUser(users, username, password)
  /\ UNCHANGED <<variant, apiKeys, indices, req, start, rotCalls, env>>

Login(username, password) ==
  /\ req' = [req EXCEPT ![1] = login(users, username, password)]
  /\ UNCHANGED <<variant, apiKeys, indices, start, rotCalls, users, env>>

HandleLogin(username, password, salt, secret) ==
  /\ req' = [req EXCEPT ![1] =
               handleLogin(users, username, password, salt, secret)]
  /\ UNCHANGED <<variant, apiKeys, indices, start, rotCalls, users, env>>

NextLogin ==
  \E username \in Names, password \in Passwords :
    \/ CreateUser(username, password)
    \/ Login(username, password)
    \/ \E salt \in Salts, secret \in Secrets :
         HandleLogin(username, password, salt, secret)

SpecLogin == InitLogin /\ [][NextLogin]_vars


----------------------------------------------------------------------------
(* loadApiKeys by variable name.  A name is the sequence of its code       *)
(* units; the base names OPENAI_API_KEY, GEMINI_API_KEY and                *)
(* TWITTER_BEARER_TOKEN, none a prefix of another, are shortened to their  *)
(* first letter.  env is process.env: a function from the names that are   *)
(* set to their values, Null for the empty string.                         *)

BaseName(service) ==
  CASE service = "openai" -> <<79>>
    [] service = "gemini" -> <<71>>
    [] service = "twitter" -> <<84>>

\* the decimal digits of i, for i below 100
Digits(i) == IF i < 10 THEN <<48 + i>> ELSE <<48 + (i \div 10), 48 + (i % 10)>>

\* the i-th variable of a rotation pool: the base name, then _2, _3, ...
SuffixName(baseName, i) ==
  IF i = 1 THEN baseName ELSE baseName \o <<95>> \o Digits(i)

OldName(baseName) == baseName \o <<95, 79, 76, 68>>     \* ..._OLD
PortName == <<80, 79, 82, 84>>                           \* PORT

\* key.startsWith(baseName)
StartsWith(key, baseName) ==
  /\ Len(key) >= Len(baseName)
  /\ \A j \in 1..Len(baseName) : key[j] = baseName[j]

\* the order of Array.prototype.sort() without a comparator: by code units,
\* a proper prefix first
LexLess(a, b) ==
  \/ Len(a) < Len(b) /\ \A j \in 1..Len(a) : a[j] = b[j]
  \/ \E i \in 1..Min(Len(a), Len(b)) :
       /\ \A j \in 1..(i - 1) : a[j] = b[j]
       /\ a[i] < b[i]

RECURSIVE Sort(_)
Sort(keys) ==
  IF keys = {} THEN <<>>
  ELSE LET first == CHOOSE k \in keys : \A other \in keys \ {k} : LexLess(k, other)
       IN <<first>> \o Sort(keys \ {first})

\* loadApiKeys(baseName) over process.env
loadApiKeysByName(environment, baseName) ==
  LET keys == Sort({key \in DOMAIN environment : StartsWith(key, baseName)})
      values == [i \in 1..Len(keys) |-> environment[keys[i]]]
  IN SelectSeq(values, LAMBDA v : v # Null)

\* an environment with the first n variables of the twitter pool set (the
\* i-th to i, or to the empty string for i = empty), the openai base name
\* set, and possibly one more variable
Extras == {"none", "old", "port"}

EnvOf(n, empty, extra) ==
  LET pool == {SuffixName(BaseName("twitter"), i) : i \in 1..n}
      other == CASE extra = "none" -> {}
                 [] extra = "old" -> {OldName(BaseName("twitter"))}
                 [] extra = "port" -> {PortName}
      names == pool \cup other \cup {BaseName("openai")}
  IN [key \in names |->
        IF key \in other THEN MaxSuffix + 2
        ELSE IF key = BaseName("openai") THEN 1
        ELSE LET i == CHOOSE i \in 1..n : key = SuffixName(BaseName("twitter"), i)
             IN IF i = empty THEN Null ELSE i]

InitLoad ==
  /\ variant \in KeyVariants
  /\ apiKeys = [s \in Services |-> loadApiKeysByName(<<>>, BaseName(s))]
  /\ indices = [s \in Services |-> 0]
  /\ req = [r \in Reqs |-> Idle]
  /\ users = {}
  /\ env = <<>>
  /\ start = indices
  /\ rotCalls = [s \in Services \cup {"unknown"} |-> 0]

\* the process starts in environment e: the module loads the three pools
Startup(e) ==
  /\ env' = e
  /\ apiKeys' = [s \in Services |-> loadApiKeysByName(e, BaseName(s))]
  /\ UNCHANGED <<variant, indices, req, start, rotCalls, users>>

NextLoad ==
  \E n \in 0..MaxSuffix, empty \in 0..MaxSuffix, extra \in Extras :
    Startup(EnvOf(n, empty, extra))

SpecLoad == InitLoad /\ [][NextLoad]_vars


----------------------------------------------------------------------------
(* Vocabulary of the properties *)

\* every task of every request, with the request that holds it
TaskIds == UNION {{<<r, i>> : i \in DOMAIN req[r].tasks} : r \in Reqs}
HasTask(id) == id[2] \in DOMAIN req[id[1]].tasks
TaskAt(id) == req[id[1]].tasks[id[2]]

\* the service whose credentials a task uses
TaskService(t) ==
  CASE t.platform = "openai" -> "openai"
    [] ToLowerCase(t.platform) = "twitter" -> "twitter"
    [] OTHER -> "none"

KeyCount(service) == Len(apiKeys[service])

\* the identifiers the dispatcher has a handler for
Supported(p) ==
  ToLowerCase(p) \in {"twitter", "telegram", "instagram", "facebook",
                      "eitaa", "rubika"}

\* request r has been received and handled up to its first await at least
Received(r) == req[r].pc # "idle"
Multi(r) == req[r].kind = "multi" /\ Received(r)
BlankQuery(r) == ~Truthy(req[r].query) \/ ~Truthy(Trim(req[r].query))

----------------------------------------------------------------------------
(* C1: a service with no credentials has getKey return null in every       *)
(* state, and every makeTwitterSearch call and /api/ai/enhance loop that   *)
(* runs for such a service has ended without an outbound call.             *)
C1_NoKeyNoCall ==
  \A s \in {"twitter", "openai"} :
    KeyCount(s) = 0 =>
      /\ getKey(apiKeys, indices, s) = Null
      /\ \A id \in TaskIds :
           HasTask(id) /\ TaskService(TaskAt(id)) = s =>
             Settled(TaskAt(id)) /\ TaskAt(id).calls = 0

\* both callers have met a null key: in the rotation variant the search
\* rejected and the AI handler answered 500
C1_Witness ==
  /\ variant = "rotation"
  /\ KeyCount("twitter") = 0 /\ KeyCount("openai") = 0
  /\ \E id \in TaskIds :
       /\ HasTask(id) /\ TaskAt(id).platform = "twitter"
       /\ TaskAt(id).why = "nokey"
  /\ \E r \in Reqs :
       /\ req[r].kind = "ai" /\ req[r].status = 500
       /\ req[r].tasks[1].why = "nokey"

(* C2: the cursor of every service is an index of its credential list (0   *)
(* when the list is empty), whatever the requests in flight have done.     *)
C2_CursorInRange ==
  \A s \in Services :
    /\ indices[s] \in 0..MaxKeys
    /\ indices[s] < Max(KeyCount(s), 1)

\* two searches in flight at once after the cursor has moved to the last key
C2_Witness ==
  /\ KeyCount("twitter") >= 2
  /\ indices["twitter"] = KeyCount("twitter") - 1
  /\ \A r \in Reqs :
       /\ Multi(r)
       /\ \E i \in DOMAIN req[r].tasks : req[r].tasks[i].pc = "await"

(* C3: for a service with N >= 2 credentials, the cursor is back at its    *)
(* starting value after k consecutive rotateKey calls exactly when k is a  *)
(* multiple of N: after N calls it is, after 1..N-1 calls it is not.       *)
C3_RoundRobin ==
  \A s \in Services :
    KeyCount(s) >= 2 =>
      (indices[s] = start[s] <=> rotCalls[s] % KeyCount(s) = 0)

\* N calls made from a starting cursor other than 0
C3_Witness ==
  \E s \in Services :
    /\ KeyCount(s) >= 2
    /\ start[s] # 0
    /\ rotCalls[s] = KeyCount(s)
    /\ indices[s] = start[s]

(* C4: a rotateKey(service) call moves the cursor of a service with two or *)
(* more credentials one position forward, wrapping from the last to the    *)
(* first, and changes nothing for a service with fewer than two            *)
(* credentials or for an unknown service name; no other cursor moves.      *)
C4_RotateEffect ==
  [][\A called \in Services \cup {"unknown"} :
       rotCalls'[called] = rotCalls[called] + 1 =>
         \A s \in Services :
           IF s = called /\ KeyCount(s) >= 2
           THEN indices'[s] = (IF indices[s] = KeyCount(s) - 1 THEN 0
                               ELSE indices[s] + 1)
           ELSE indices'[s] = indices[s]]_vars

\* a call that wrapped the cursor of one service, after calls for a service
\* with a single credential and for an unknown service
C4_Witness ==
  \E s, one \in Services :
    /\ KeyCount(s) >= 2 /\ KeyCount(one) = 1
    /\ start[s] = KeyCount(s) - 1 /\ rotCalls[s] = 1 /\ indices[s] = 0
    /\ rotCalls[one] >= 1 /\ rotCalls["unknown"] >= 1


(* C5: one makeTwitterSearch call or one /api/ai/enhance request issues at *)
(* most max(number of credentials, 1) outbound calls whatever the calls    *)
(* answer and whatever other requests do to the cursor; while a call is in *)
(* flight it is the call of one attempt of fewer than that many, so the    *)
(* loop ends after that many answers at the latest.                        *)
C5_BoundedCalls ==
  \A id \in TaskIds :
    LET t == TaskAt(id)
        s == TaskService(t)
    IN s # "none" =>
         /\ t.calls <= Max(KeyCount(s), 1)
         /\ t.pc = "await" =>
              t.calls = t.attempt + 1 /\ t.attempt < Max(KeyCount(s), 1)

\* a search and an AI request have both used up all their attempts
C5_Witness ==
  /\ KeyCount("twitter") >= 2 /\ KeyCount("openai") >= 2
  /\ \E id \in TaskIds :
       /\ TaskAt(id).platform = "twitter" /\ Settled(TaskAt(id))
       /\ TaskAt(id).calls = KeyCount("twitter") /\ ~TaskAt(id).authOnly
  /\ \E r \in Reqs :
       /\ req[r].kind = "ai" /\ req[r].pc = "done"
       /\ req[r].tasks # <<>>
       /\ req[r].tasks[1].calls = KeyCount("openai")

(* C6: a makeTwitterSearch call in which every outbound call was answered  *)
(* 401 or 429 ends by returning mock data with success true.               *)
C6_ExhaustedReturnsMock ==
  variant \in KeyVariants =>
    \A id \in TaskIds :
      LET t == TaskAt(id) IN
      t.platform = "twitter" /\ Settled(t) /\ t.calls >= 1 /\ t.authOnly =>
        t.out = "mock"

(* C7: with exactly one credential for a service the cursor stays where it *)
(* is, no call or request makes a second outbound call, and one that was   *)
(* answered 401 or 429 has ended after its single call.                    *)
C7_SingleCredential ==
  \A s \in {"twitter", "openai"} :
    KeyCount(s) = 1 =>
      /\ indices[s] = 0
      /\ \A id \in TaskIds :
           LET t == TaskAt(id) IN
           TaskService(t) = s =>
             /\ t.calls <= 1
             /\ t.why = "exhausted" => Settled(t) /\ t.calls = 1

\* the single Twitter key and the single OpenAI key have each been refused
C7_Witness ==
  /\ KeyCount("twitter") = 1 /\ KeyCount("openai") = 1
  /\ \E id \in TaskIds :
       TaskAt(id).platform = "twitter" /\ TaskAt(id).why = "exhausted"
  /\ \E id \in TaskIds :
       TaskAt(id).platform = "openai" /\ TaskAt(id).why = "exhausted"

(* C8: the response to a valid /api/search/multi request whose list names  *)
(* an unsupported identifier has an entry for it with success false and an *)
(* error, and an entry for every supported identifier of the list.         *)
C8_UnsupportedGetsErrorEntry ==
  \A r \in Reqs :
    Multi(r) /\ req[r].pc = "done" /\ ~BlankQuery(r) /\ req[r].pform = "list" =>
      \A i \in DOMAIN req[r].platforms :
        ~Supported(req[r].platforms[i]) =>
          /\ \E e \in req[r].resp :
               e.key = req[r].platforms[i] /\ ~e.success /\ e.out = "error"
          /\ \A j \in DOMAIN req[r].platforms :
               Supported(req[r].platforms[j]) =>
                 \E e \in req[r].resp : e.key = req[r].platforms[j]

\* the handler of request r has ended: it answered, or it threw with nothing
\* to catch it
Ended(r) == req[r].pc \in {"done", "unhandled"}

(* C9: an /api/search/multi request whose query is missing, empty or blank *)
(* starts no platform handler and, once handled, has been answered 400.    *)
C9_BlankQueryRejected ==
  \A r \in Reqs :
    Multi(r) /\ BlankQuery(r) =>
      /\ req[r].tasks = <<>>
      /\ Ended(r) => req[r].status = 400

(* C10: an /api/search/multi request with a valid query and a missing,     *)
(* non-list or empty platforms value starts no platform handler and, once  *)
(* handled, has been answered 400.                                         *)
C10_PlatformsValidated ==
  \A r \in Reqs :
    Multi(r) /\ ~BlankQuery(r)
      /\ (req[r].pform # "list" \/ req[r].platforms = <<>>) =>
        /\ req[r].tasks = <<>>
        /\ Ended(r) => req[r].status = 400

\* a handler of the request threw, rejected or refused its identifier
Failed(t) == Settled(t) /\ t.out \in {"rejected", "error"}

(* C11: when a platform handler of an /api/search/multi request has thrown *)
(* or rejected, the request is answered 200 and every other platform of    *)
(* the list has an entry with success true in the response.                *)
C11_SiblingsSurvive ==
  \A r \in Reqs :
    Multi(r) /\ Ended(r)
      /\ (\E i \in DOMAIN req[r].tasks : Failed(req[r].tasks[i])) =>
        /\ req[r].status = 200
        /\ \A j \in DOMAIN req[r].tasks :
             ~Failed(req[r].tasks[j]) =>
               \E e \in req[r].resp :
                 e.key = req[r].tasks[j].platform /\ e.success

\* the sum of data.total over the entries of a platforms map with success true
RECURSIVE SumSuccessful(_)
SumSuccessful(resp) ==
  IF resp = {} THEN 0
  ELSE LET e == CHOOSE x \in resp : TRUE IN
       (IF e.success THEN e.total ELSE 0) + SumSuccessful(resp \ {e})

\* request r had a valid body with a non-empty list and was answered 200
Accepted(r) ==
  /\ Multi(r) /\ req[r].pc = "done" /\ req[r].status = 200
  /\ req[r].platforms # <<>>

(* C12: in the 200 response to an /api/search/multi request with a         *)
(* non-empty platforms list, duplicates included, total is the sum of      *)
(* data.total over the entries of the platforms map with success true.     *)
C12_TotalIsSumOfSuccessful ==
  \A r \in Reqs :
    Accepted(r) => req[r].total = SumSuccessful(req[r].resp)

(* C13: while the dispatcher of an /api/search/multi request waits, a      *)
(* handler has been started for every platform of the list, and once the   *)
(* response is sent every started handler has settled.                     *)
C13_StartAllThenWaitAll ==
  \A r \in Reqs :
    Multi(r) =>
      /\ req[r].pc \in {"wait", "ai"} =>
           Len(req[r].tasks) = Len(req[r].platforms)
      /\ req[r].status # 0 => AllSettled(req[r].tasks)

(* C14: with no Twitter credential configured, an /api/search/multi        *)
(* request for [twitter, eitaa] with a valid query is answered 200 with a  *)
(* successful mock entry of at most count items for twitter, a successful  *)
(* mock entry for eitaa, and a total that is the sum of the two.           *)
C14_NoKeyScenario ==
  \A r \in Reqs :
    Multi(r) /\ Ended(r) /\ req[r].query = "q" /\ req[r].pform = "list"
      /\ req[r].platforms = <<"twitter", "eitaa">>
      /\ KeyCount("twitter") = 0 =>
        /\ req[r].status = 200
        /\ \E tw, ei \in req[r].resp :
             /\ tw.key = "twitter" /\ tw.success /\ tw.out = "mock"
             /\ tw.total <= req[r].count
             /\ ei.key = "eitaa" /\ ei.success /\ ei.out = "mock"
             /\ req[r].total = tw.total + ei.total

Ai(r) == req[r].kind = "ai" /\ Received(r)

\* the text of request r is missing or empty, or blank where the handler trims
NoText(r) ==
  \/ ~Truthy(req[r].text)
  \/ variant = "defensive" /\ ~Truthy(Trim(req[r].text))

(* C15: an /api/ai/enhance request whose text is missing or empty (or      *)
(* blank, in the defensive variant) is answered 400 without entering the   *)
(* retry loop: no outbound call is made and rotateKey is not called.       *)
C15_NoTextRejected ==
  \A r \in Reqs :
    Ai(r) /\ NoText(r) =>
      /\ req[r].status = 400
      /\ req[r].tasks = <<>>

\* request r asked for an analysis by OpenAI with a proper text
ValidAi(r) == Ai(r) /\ ~NoText(r) /\ req[r].service = "openai"

(* C16: in the defensive variant an /api/ai/enhance request with valid     *)
(* text and service openai is never answered with anything but 200, and    *)
(* when its AI call failed (no key, 401/429 on every key, another status,  *)
(* a network or parse error) the answer carries a canned analysis.         *)
C16_DefensiveAiDegrades ==
  variant = "defensive" =>
    \A r \in Reqs :
      ValidAi(r) =>
        /\ req[r].status \in {0, 200}
        /\ req[r].tasks # <<>>
        /\ LET t == req[r].tasks[1] IN
           /\ req[r].pc = "done" <=> Settled(t)
           /\ req[r].pc = "done" => req[r].status = 200
           /\ Settled(t) /\ t.why # "none" => t.out = "canned"
           /\ Settled(t) /\ t.why = "none" => t.out = "live"

\* one request was refused on every key, another met a failure that is not
\* a 401/429 on its last attempt; both have been answered 200
C16_Witness ==
  /\ variant = "defensive"
  /\ KeyCount("openai") >= 2
  /\ \E r1, r2 \in Reqs :
       /\ ValidAi(r1) /\ req[r1].status = 200
       /\ req[r1].tasks[1].why = "exhausted"
       /\ req[r1].tasks[1].calls = KeyCount("openai")
       /\ ValidAi(r2) /\ req[r2].status = 200
       /\ req[r2].tasks[1].why = "failed"

(* C17: an /api/ai/enhance request with a proper text and service openai   *)
(* (also the default) or gemini is answered 200 with success true and an   *)
(* analysis text: the model's, a canned one or a generated one.            *)
C17_AnalysisReturned ==
  \A r \in Reqs :
    Ai(r) /\ req[r].text = "q" /\ req[r].service \in AiServices
      /\ req[r].pc = "done" =>
        /\ req[r].status = 200
        /\ req[r].tasks # <<>>
        /\ req[r].tasks[1].out \in {"live", "canned", "mock"}

\* every variable of the service is unset, empty or a placeholder
NotConfigured(s) ==
  \A i \in DOMAIN apiKeys[s] : ~Configured(apiKeys[s][i])

(* C18: a credential that is missing or holds a placeholder value is never *)
(* what getKey returns and never the credential of an outbound call, and a *)
(* service with no other values has its handlers end without any call.     *)
C18_PlaceholderNotUsed ==
  /\ variant \in KeyVariants =>
       \A s \in Services : ~IncludesYour(getKey(apiKeys, indices, s))
  /\ \A id \in TaskIds :
       TaskAt(id).pc = "await" => Configured(TaskAt(id).key)
  /\ \A id \in TaskIds :
       LET s == TaskService(TaskAt(id)) IN
       s # "none" /\ NotConfigured(s) =>
         Settled(TaskAt(id)) /\ TaskAt(id).calls = 0

(* C19: a Twitter search whose last outbound call failed with a network    *)
(* error or a status that is neither 2xx nor 401/429 has returned mock     *)
(* data (success true); it has not rejected.                               *)
C19_TransientFailureReturnsMock ==
  \A id \in TaskIds :
    LET t == TaskAt(id) IN
    TaskService(t) = "twitter" /\ Settled(t) /\ t.why = "failed" =>
      t.out = "mock"

\* the credential at position (start + k) of the service's list, counted
\* round the list
KeyAfter(s, k) == apiKeys[s][((start[s] + k) % KeyCount(s)) + 1]

\* a step in which the call of task id was answered 401 or 429 (the cursor
\* moved) and the loop went on to its next attempt
RetriedAfterRefusal(id) ==
  /\ HasTask(id) /\ TaskAt(id).pc = "await"
  /\ HasTask(id)' /\ TaskAt(id)'.pc = "await"
  /\ TaskAt(id)'.attempt = TaskAt(id).attempt + 1
  /\ indices' # indices

(* C20: in a makeTwitterSearch call or an /api/ai/enhance request that     *)
(* runs with no other request in flight, the attempt that follows a 401 or *)
(* 429 uses another credential than the one refused; as long as every      *)
(* answer was a 401 or 429, attempt k (k = 0, 1, ...) uses the credential  *)
(* k positions after the starting cursor, and the call ends after N such   *)
(* attempts, which therefore used each of the N credentials once.          *)
C20_EachKeyOnce ==
  /\ [](\A id \in TaskIds :
          LET t == TaskAt(id)
              s == TaskService(t)
          IN s # "none" =>
               /\ t.pc = "await" /\ t.authOnly => t.key = KeyAfter(s, t.attempt)
               /\ Settled(t) /\ t.calls >= 1 /\ t.authOnly =>
                    t.why = "exhausted" /\ t.calls = KeyCount(s))
  /\ [][\A r \in Reqs :
          RetriedAfterRefusal(<<r, 1>>) =>
            TaskAt(<<r, 1>>)'.key # TaskAt(<<r, 1>>).key]_vars

\* a search that began at a cursor other than 0 was refused on every key
\* and left the cursor where it began
C20_Witness ==
  /\ KeyCount("twitter") >= 2
  /\ start["twitter"] # 0
  /\ indices["twitter"] = start["twitter"]
  /\ \E id \in TaskIds :
       /\ TaskAt(id).platform = "twitter" /\ TaskAt(id).why = "exhausted"
       /\ TaskAt(id).authOnly /\ TaskAt(id).calls = KeyCount("twitter")
       /\ \A r \in Reqs : r # id[1] => req[r] = Idle

Refusals == {st \in Statuses : AuthFail(st)}

\* this step is the answer st to an outbound call of the service
Answered(service, st) ==
  \/ /\ service = "twitter"
     /\ \E r \in Reqs, n \in LiveCounts :
          \E i \in DOMAIN req[r].tasks : TwitterResponse(r, i, st, n)
  \/ /\ service = "openai"
     /\ \E r \in Reqs : AiResponse(r, st)

\* this step receives a request and runs its handler to its first await, or
\* composes a response
Handled ==
  \/ \E r \in Reqs, query \in Texts, pform \in PlatformForms,
        plist \in PlatformLists, count \in Counts :
       ReceiveMulti(r, query, pform, plist, count)
  \/ \E r \in Reqs, text \in Texts, service \in AiServices :
       ReceiveAi(r, text, service)
  \/ \E r \in Reqs : Compose(r)

(* C21: a step changes the cursor of a service only if it is the 401 or    *)
(* 429 answer to an outbound call of that service; the answer 2xx, another *)
(* status or a network error, and the handling of a request up to its      *)
(* first call (validation included), leave every cursor as it was.         *)
C21_RotateOnlyOnRefusal ==
  [][indices' # indices =>
       /\ \A s \in Services :
            indices'[s] # indices[s] => \E st \in Refusals : Answered(s, st)
       /\ \A s \in Services :
            ~ \E st \in Statuses \ Refusals : Answered(s, st)
       /\ ~Handled]_vars

\* a cursor has moved, while one search ended on another failure than a
\* refusal and one request failed its validation
C21_Witness ==
  /\ indices["twitter"] # 0
  /\ \E id \in TaskIds :
       TaskService(TaskAt(id)) = "twitter" /\ TaskAt(id).why = "failed"
  /\ \E r \in Reqs : req[r].status = 400

(* C22: whatever the interleaving of the requests, the cursor of a service *)
(* with N >= 2 credentials is its starting value plus the number of        *)
(* rotateKey calls made for that service, modulo N: no call is lost.       *)
C22_NoLostUpdate ==
  \A s \in Services :
    KeyCount(s) >= 2 =>
      indices[s] = (start[s] + rotCalls[s]) % KeyCount(s)

\* two searches in flight were both refused once, each has rotated, and
\* the cursor is two positions on
C22_Witness ==
  /\ KeyCount("twitter") >= 2
  /\ rotCalls["twitter"] = 2
  /\ indices["twitter"] = (start["twitter"] + 2) % KeyCount("twitter")
  /\ \A r \in Reqs :
       /\ Multi(r) /\ req[r].tasks # <<>>
       /\ req[r].tasks[1].attempt = 1 \/ req[r].tasks[1].why = "exhausted"
       /\ req[r].tasks[1].authOnly

(* C23: when one configured Twitter credential is always accepted and the  *)
(* other answers are 401 or 429, every makeTwitterSearch call that has     *)
(* ended, whatever ran beside it, has returned live results.               *)
C23_RaceIsBenign ==
  \A id \in TaskIds :
    LET t == TaskAt(id) IN
    TaskService(t) = "twitter" /\ Settled(t) /\ t.calls >= 1
      /\ (t.authOnly \/ t.out = "live") =>
        t.out = "live"

\* a platform the dispatcher knows but has no live integration for
MockOnly(p) == Supported(p) /\ ToLowerCase(p) \notin {"twitter", "telegram"}

(* C24: in the key-rotation variant, an /api/search/multi request with a   *)
(* query whose list names a platform without live integration is answered  *)
(* 200 with a successful mock entry for that platform.                     *)
C24_RotationMockPlatform ==
  variant = "rotation" =>
    \A r \in Reqs :
      Multi(r) /\ Ended(r) /\ Truthy(req[r].query) /\ req[r].pform = "list" =>
        \A i \in DOMAIN req[r].platforms :
          MockOnly(req[r].platforms[i]) =>
            /\ req[r].status = 200
            /\ \E e \in req[r].resp :
                 /\ e.key = req[r].platforms[i]
                 /\ e.success /\ e.out = "mock"

(* C25: the 200 response to an /api/search/multi request has an entry      *)
(* under every identifier of the list, successful exactly when that        *)
(* platform's handler returned results, and no entry under any other key.  *)
C25_EntriesUnderOwnKey ==
  \A r \in Reqs :
    Accepted(r) =>
      /\ \A i \in DOMAIN req[r].tasks :
           \E e \in req[r].resp :
             /\ e.key = req[r].tasks[i].platform
             /\ e.success <=> ~Failed(req[r].tasks[i])
      /\ \A e \in req[r].resp :
           \E i \in DOMAIN req[r].platforms : e.key = req[r].platforms[i]

(* C26: createMockResults(platform, query, count) returns success true     *)
(* with min(max(count, 0), cap) items, cap being 10, 8 or 20 by variant;   *)
(* data.total is the number of items and every item carries the platform   *)
(* asked for.                                                              *)
C26_MockResultsShape ==
  req[1].kind = "mock" =>
    LET res == req[1].resp
        cap == CASE variant = "defensive" -> 10
                 [] variant = "rotation" -> 8
                 [] variant = "railway" -> 20
    IN /\ res.success
       /\ Len(res.results) = Min(Max(req[1].count, 0), cap)
       /\ res.total = Len(res.results)
       /\ res.platform = req[1].platforms[1]
       /\ \A i \in DOMAIN res.results :
            res.results[i].platform = req[1].platforms[1]

\* a call asking for more items than the cap of the Railway variant
C26_Witness ==
  /\ variant = "railway"
  /\ req[1].kind = "mock"
  /\ req[1].count > 20
  /\ req[1].resp.total = 20

(* C27: every /api/ai/enhance and /api/search/multi request gets exactly   *)
(* one response once its outbound calls have settled: a handler that is    *)
(* not waiting for a call has answered, with one status code.              *)
C27_OneResponse ==
  \A r \in Reqs :
    Received(r) /\ req[r].pc # "wait" =>
      /\ req[r].pc = "done"
      /\ req[r].status \in {200, 400, 500, 503}

(* C28: the credential sets never change; a step that starts a handler,    *)
(* which only reads the cursor through getKey before its first outbound    *)
(* call, changes no cursor; a step that rotates changes the cursor of one  *)
(* service only; and the gemini cursor stays 0.                            *)
C28_FrameOfKeyManager ==
  /\ [](indices["gemini"] = 0)
  /\ [][/\ apiKeys' = apiKeys
        /\ (\E r \in Reqs : Free(r) /\ req'[r] # req[r]) => indices' = indices
        /\ \A s, t \in Services :
             indices'[s] # indices[s] /\ t # s => indices'[t] = indices[t]]_vars

\* the twitter cursor has been rotated while a request holds an openai
\* credential read through getKey, and the openai and gemini cursors of
\* services with two or more credentials are where they started
C28_Witness ==
  /\ indices["twitter"] = 1
  /\ KeyCount("openai") >= 2 /\ indices["openai"] = 0
  /\ KeyCount("gemini") >= 2 /\ indices["gemini"] = 0
  /\ \E r \in Reqs :
       /\ req[r].kind = "ai"
       /\ HasTask(<<r, 1>>)
       /\ TaskAt(<<r, 1>>).pc = "await"
       /\ TaskAt(<<r, 1>>).key = getKey(apiKeys, indices, "openai")

\* the user store holds this name with this password
ValidPassword(username, password) ==
  \E u \in users : u.username = username /\ u.password = password

(* C29: handleLogin issues a token only when the password is valid for the *)
(* username, answers 401 when both are given and the password is not       *)
(* valid, and answers 400 with no token when either is missing.            *)
C29_LoginChecksPassword ==
  LET q == req[1]
  IN q.kind = "handleLogin" =>
       /\ q.token # {} => ValidPassword(q.username, q.password)
       /\ Truthy(q.username) /\ Truthy(q.password)
            /\ ~ValidPassword(q.username, q.password) => q.status = 401
       /\ ~Truthy(q.username) \/ ~Truthy(q.password) =>
            q.status = 400 /\ q.token = {}

\* the non-empty values of baseName, baseName_2, baseName_3, ... in
\* ascending order of the suffix
InNumericOrder(baseName) ==
  LET values == [i \in 1..(MaxSuffix + 1) |->
                   IF SuffixName(baseName, i) \in DOMAIN env
                   THEN env[SuffixName(baseName, i)] ELSE Null]
  IN SelectSeq(values, LAMBDA v : v # Null)

(* C30: loadApiKeys(baseName) returns the non-empty values of baseName,    *)
(* baseName_2, baseName_3, ... in ascending order of the suffix, and the   *)
(* value of no other variable.                                             *)
C30_LoadedInNumericOrder ==
  \A s \in Services : apiKeys[s] = InNumericOrder(BaseName(s))

====
